---- MODULE Spec2Model ----
(***************************************************************************)
(* The unified HTTP / WebSocket Router of satori: WebSocketLayer (accept,  *)
(* close), the Router's connection handler, its ready / dispose handlers,  *)
(* and the disposable registrations register() and ws().                   *)
(***************************************************************************)
EXTENDS Integers, Sequences, FiniteSets, TLC

\* ---------------------------------------------------------------- bounds
MaxLayers  == 2   \* WebSocketLayer objects ever created by ws()
MaxRoutes  == 2   \* route entries ever created by register()
MaxSockets == 2   \* inbound WebSocket connections ever made
MaxPort    == 1   \* largest port number (config.maxPort)
MaxDispose == 2   \* how often the disposing signal is delivered

Layers  == 1..MaxLayers
Sockets == 1..MaxSockets
Scopes  == {"A", "B"}   \* plugin scopes that can be Context.current
Paths   == {"/a", "/b"} \* request pathnames

NoScope == "none"       \* this[Context.current] is undefined
NoPath  == "none"       \* pathname of a socket that has not connected
NoPort  == 0            \* config.port / router.port undefined (falsy)
NoHost  == "undefined"  \* config.host / router.host undefined
Hosts   == {"0.0.0.0"}

VARIABLES
  layers,        \* heap of WebSocketLayer objects: layers[l] = [regexp, callback, clients]
  wsStack,       \* Router.wsStack: sequence of layer references
  stack,         \* KoaRouter.stack: sequence of route-entry references
  numRoutes,     \* route entries created so far
  layerScope,    \* layerScope[l]: Context.current when ws() created l
  routeScope,    \* routeScope[r]: Context.current when register() created r
  disposables,   \* disposables[sc]: context.state.disposables of scope sc
  scopeEnded,    \* scopes whose disposables have been run
  sockState,     \* per socket: "idle" | "open" | "closing" | "closed"
  sockPath,      \* per socket: parseUrl(request).pathname
  listeners,     \* per socket: layers whose close observer is attached
  cbCount,       \* cbCount[l][s]: how often layers[l].callback ran for socket s
  config,        \* ctx.root.config: [host, port]
  host,          \* Router.host
  port,          \* Router.port
  http,          \* Router._http: "created" | "listening" | "closed"
  wsServer,      \* Router._ws: "open" | "closed"
  readyPc,       \* position of the async ready handler: "idle" | "awaiting" | "done"
  disposeInstalled, \* ctx.on('dispose', ...) has been executed
  disposeCount,  \* deliveries of the disposing signal
  listenCalls,   \* calls of _http.listen
  acquireCalls,  \* calls of listen(config) (port acquisition)
  op,            \* the operation performed by the last step: [name, arg]
  closeInvoked,  \* sockets on which close() was invoked by the last step
  offered,       \* layers whose accept() was called by the last step, in call order
  cbLog,         \* callback invocations of the last step: [layer, socket, member]
  teardownLog    \* order in which the last dispose handler closed the servers

vars == <<layers, wsStack, stack, numRoutes, layerScope, routeScope, disposables,
          scopeEnded, sockState, sockPath, listeners, cbCount, config,
          host, port, http, wsServer, readyPc, disposeInstalled, disposeCount,
          listenCalls, acquireCalls, op, closeInvoked, offered, cbLog, teardownLog>>

\* ------------------------------------------------------------ helpers

\* cosmokit remove(list, item): splice out the first occurrence, if any.
RECURSIVE IndexOf(_, _, _)
IndexOf(list, item, i) ==
  IF i > Len(list) THEN 0
  ELSE IF list[i] = item THEN i ELSE IndexOf(list, item, i + 1)

\* a remove() that splices without testing the index: indexOf = -1 drops the last entry
RemoveUnchecked(list, item) ==
  LET i == IndexOf(list, item, 1) IN
  IF Len(list) = 0 THEN list
  ELSE IF i = 0 THEN SubSeq(list, 1, Len(list) - 1)
  ELSE SubSeq(list, 1, i - 1) \o SubSeq(list, i + 1, Len(list))

Remove(list, item) ==
  LET i == IndexOf(list, item, 1) IN
  IF i = 0 THEN list
  ELSE SubSeq(list, 1, i - 1) \o SubSeq(list, i + 1, Len(list))

\* ws: WebSocket.close() starts the closing handshake of an open socket and is
\* ignored on a socket that is already closing or closed.
SocketClose(ss, s) ==
  IF ss[s] = "open" THEN [ss EXCEPT ![s] = "closing"] ELSE ss

Range(seq) == {seq[i] : i \in 1..Len(seq)}

\* ------------------------------------------------------ WebSocketLayer

\* The regular expressions pathToRegexp can produce, each as the set of
\* pathnames it matches.
Patterns == {{"/a"}, {"/a", "/b"}}

NewLayer(re, cb) == [regexp |-> re, callback |-> cb, clients |-> {}]

\* accept() that runs its body without testing the pathname
AcceptNoTest(st, l, s, p) ==
  [st EXCEPT !.layers[l].clients = @ \cup {s},
             !.listeners[s] = @ \cup {l},
             !.cbCount[l][s] = IF st.layers[l].callback THEN @ + 1 ELSE @,
             !.offered = Append(@, l),
             !.accepted = TRUE]

\* accept() that runs the callback before the socket joins clients
AcceptCallbackFirst(st, l, s, p) ==
  IF p \notin st.layers[l].regexp
  THEN [st EXCEPT !.offered = Append(@, l), !.accepted = FALSE]
  ELSE LET called ==
             IF st.layers[l].callback
             THEN [st EXCEPT
                     !.cbCount[l][s] = @ + 1,
                     !.cbLog = Append(@, [layer |-> l, socket |-> s,
                                          member |-> s \in st.layers[l].clients])]
             ELSE st
           added == [called EXCEPT !.layers[l].clients = @ \cup {s}]
           observed == [added EXCEPT !.listeners[s] = @ \cup {l}]
       IN [observed EXCEPT !.offered = Append(@, l), !.accepted = TRUE]

\* accept() that tracks the socket and attaches no close observer
AcceptNoObserver(st, l, s, p) ==
  IF p \notin st.layers[l].regexp
  THEN [st EXCEPT !.offered = Append(@, l), !.accepted = FALSE]
  ELSE LET added == [st EXCEPT !.layers[l].clients = @ \cup {s}]
           called ==
             IF added.layers[l].callback
             THEN [added EXCEPT
                     !.cbCount[l][s] = @ + 1,
                     !.cbLog = Append(@, [layer |-> l, socket |-> s,
                                          member |-> s \in added.layers[l].clients])]
             ELSE added
       IN [called EXCEPT !.offered = Append(@, l), !.accepted = TRUE]

\* WebSocketLayer.accept(socket, request) on layer l, as a transformer of
\* st = [layers, listeners, cbCount, offered, cbLog, accepted], statement by
\* statement; st.accepted is the truthiness of the value returned.
Accept(st, l, s, p) ==
  IF p \notin st.layers[l].regexp
  THEN [st EXCEPT !.offered = Append(@, l), !.accepted = FALSE]
  ELSE LET added == [st EXCEPT !.layers[l].clients = @ \cup {s}]
           observed == [added EXCEPT !.listeners[s] = @ \cup {l}]
           called ==
             IF observed.layers[l].callback
             THEN [observed EXCEPT
                     !.cbCount[l][s] = @ + 1,
                     !.cbLog = Append(@, [layer |-> l, socket |-> s,
                                          member |-> s \in observed.layers[l].clients])]
             ELSE observed
       IN [called EXCEPT !.offered = Append(@, l), !.accepted = TRUE]

\* close() that closes its sockets but forgets to leave the dispatch list
LayerCloseKeepStack(st, l, cl) ==
  [st EXCEPT !.sockState = [s \in Sockets |->
                              IF s \in cl THEN SocketClose(st.sockState, s)[s]
                              ELSE st.sockState[s]],
             !.closeInvoked = @ \cup cl]

\* close() that closes the sockets of every layer
LayerCloseAllSockets(st, l, cl) ==
  [st EXCEPT !.wsStack = Remove(@, l),
             !.sockState = [s \in Sockets |-> SocketClose(st.sockState, s)[s]],
             !.closeInvoked = @ \cup {s \in Sockets : st.sockState[s] # "idle"}]

\* WebSocketLayer.close() on layer l, as a transformer of
\* st = [wsStack, stack, sockState, closeInvoked]; cl is the layer's clients set.
\* The clients set itself is left to the close observers.
LayerCloseOn(st, l, cl) ==
  [st EXCEPT !.wsStack = Remove(@, l),
             !.sockState = [s \in Sockets |->
                              IF s \in cl THEN SocketClose(st.sockState, s)[s]
                              ELSE st.sockState[s]],
             !.closeInvoked = @ \cup cl]

\* ------------------------------------------------------------- Router

\* the connection handler's loop that keeps offering after a layer accepted
RECURSIVE ConnLoopNoReturn(_, _, _, _)
ConnLoopNoReturn(st, i, s, p) ==
  IF i > Len(wsStack) THEN st
  ELSE LET st2 == Accept(st, wsStack[i], s, p) IN
       LET st3 == ConnLoopNoReturn(st2, i + 1, s, p) IN
       [st3 EXCEPT !.accepted = st2.accepted \/ st3.accepted]

\* for (const manager of this.wsStack) if (manager.accept(socket, request)) return
RECURSIVE ConnLoop(_, _, _, _)
ConnLoop(st, i, s, p) ==
  IF i > Len(wsStack) THEN [st EXCEPT !.accepted = FALSE]
  ELSE LET st2 == Accept(st, wsStack[i], s, p) IN
       IF st2.accepted THEN st2 ELSE ConnLoop(st2, i + 1, s, p)

\* the handler's tail that leaves an unmatched socket open
UnmatchedLeaveOpen(ss, s) == ss

\* socket.close() after the loop found no accepting layer
UnmatchedClose(ss, s) == SocketClose(ss, s)

\* a cleanup closure that drops the newest entry instead of its own
RunDisposablePop(st, d) ==
  IF d.kind = "route"
  THEN [st EXCEPT !.stack = SubSeq(@, 1, Len(@) - 1)]
  ELSE LET closed == LayerCloseOn(st, d.id, layers[d.id].clients) IN
       [closed EXCEPT !.wsStack = SubSeq(st.wsStack, 1, Len(st.wsStack) - 1)]

\* a cleanup closure whose route removal splices without testing the index
RunDisposableUnchecked(st, d) ==
  IF d.kind = "route"
  THEN [st EXCEPT !.stack = RemoveUnchecked(@, d.id)]
  ELSE LayerCloseOn(st, d.id, layers[d.id].clients)

\* one cleanup closure pushed by register() or ws()
RunDisposable(st, d) ==
  IF d.kind = "route"
  THEN [st EXCEPT !.stack = Remove(@, d.id)]
  ELSE LayerCloseOn(st, d.id, layers[d.id].clients)

\* the scope running its disposables in the order they were pushed
RECURSIVE RunDisposables(_, _)
RunDisposables(st, ds) ==
  IF ds = <<>> THEN st
  ELSE RunDisposables(RunDisposable(st, Head(ds)), Tail(ds))

\* listen(config): the port-acquisition routine resolves a bindable port in
\* the range config.port .. maxPort, where maxPort is no less than config.port.
ListenPorts(cfg) == cfg.port .. (IF cfg.port > MaxPort THEN cfg.port ELSE MaxPort)

\* `${this.port}`: a number in decimal, or "undefined" while the field is unset
PortText(p) == IF p = NoPort THEN "undefined" ELSE ToString(p)

\* a selfUrl whose wildcard list lacks the IPv6 any-address
SelfUrlOnlyV4(h, p) ==
  LET wildcard == {"0.0.0.0"}
      shown == IF h \in wildcard THEN "127.0.0.1" ELSE h
  IN "http://" \o shown \o ":" \o PortText(p)

\* get selfUrl(), of the fields host = h and port = p
SelfUrl(h, p) ==
  LET wildcard == {"0.0.0.0", "::"}
      shown == IF h \in wildcard THEN "127.0.0.1" ELSE h
  IN "http://" \o shown \o ":" \o PortText(p)

\* ---------------------------------------------------------------- Init

\* ctx.root.config: no port (with or without a host), or a host and a port
Configs ==
  [host : Hosts \cup {NoHost}, port : {NoPort}] \cup [host : Hosts, port : 1..MaxPort]

Init ==
  /\ layers = <<>>
  /\ wsStack = <<>>
  /\ stack = <<>>
  /\ numRoutes = 0
  /\ layerScope = <<>>
  /\ routeScope = <<>>
  /\ disposables = [sc \in Scopes |-> <<>>]
  /\ scopeEnded = {}
  /\ sockState = [s \in Sockets |-> "idle"]
  /\ sockPath = [s \in Sockets |-> NoPath]
  /\ listeners = [s \in Sockets |-> {}]
  /\ cbCount = [l \in Layers |-> [s \in Sockets |-> 0]]
  /\ config \in Configs
  /\ host = NoHost
  /\ port = NoPort
  /\ http = "created"
  /\ wsServer = "open"
  /\ readyPc = "idle"
  /\ disposeInstalled = FALSE
  /\ disposeCount = 0
  /\ listenCalls = 0
  /\ acquireCalls = 0
  /\ op = [name |-> "new", arg |-> 0]
  /\ closeInvoked = {}
  /\ offered = <<>>
  /\ cbLog = <<>>
  /\ teardownLog = <<>>

\* ------------------------------------------------------------- actions

\* register() that adds the route and pushes no cleanup
RegisterNoCleanup(sc) ==
  /\ numRoutes < MaxRoutes
  /\ sc \notin scopeEnded
  /\ LET r == numRoutes + 1 IN
     /\ numRoutes' = r
     /\ stack' = Append(stack, r)
     /\ routeScope' = Append(routeScope, sc)
     /\ op' = [name |-> "register", arg |-> r]
  /\ closeInvoked' = {}
  /\ offered' = <<>>
  /\ cbLog' = <<>>
  /\ UNCHANGED <<layers, wsStack, layerScope, disposables, scopeEnded, sockState,
                 sockPath, listeners, cbCount, config, host, port, http, wsServer,
                 readyPc, disposeInstalled, disposeCount, listenCalls, acquireCalls,
                 teardownLog>>

\* Router.register(...) called while Context.current is sc
Register(sc) ==
  /\ numRoutes < MaxRoutes
  /\ sc \notin scopeEnded
  /\ LET r == numRoutes + 1 IN
     /\ numRoutes' = r
     /\ stack' = Append(stack, r)
     /\ routeScope' = Append(routeScope, sc)
     /\ disposables' = IF sc = NoScope THEN disposables
                       ELSE [disposables EXCEPT ![sc] = Append(@, [kind |-> "route", id |-> r])]
     /\ op' = [name |-> "register", arg |-> r]
  /\ closeInvoked' = {}
  /\ offered' = <<>>
  /\ cbLog' = <<>>
  /\ UNCHANGED <<layers, wsStack, layerScope, scopeEnded, sockState, sockPath,
                 listeners, cbCount, config, host, port, http, wsServer,
                 readyPc, disposeInstalled, disposeCount, listenCalls, acquireCalls,
                 teardownLog>>

\* ws() that puts the new layer in front of the dispatch list
WsUnshift(sc, re, cb) ==
  /\ Len(layers) < MaxLayers
  /\ sc \notin scopeEnded
  /\ LET l == Len(layers) + 1 IN
     /\ layers' = Append(layers, NewLayer(re, cb))
     /\ wsStack' = <<l>> \o wsStack
     /\ layerScope' = Append(layerScope, sc)
     /\ disposables' = IF sc = NoScope THEN disposables
                       ELSE [disposables EXCEPT ![sc] = Append(@, [kind |-> "ws", id |-> l])]
     /\ op' = [name |-> "ws", arg |-> l]
  /\ closeInvoked' = {}
  /\ offered' = <<>>
  /\ cbLog' = <<>>
  /\ UNCHANGED <<stack, numRoutes, routeScope, scopeEnded, sockState, sockPath,
                 listeners, cbCount, config, host, port, http, wsServer,
                 readyPc, disposeInstalled, disposeCount, listenCalls, acquireCalls,
                 teardownLog>>

\* Router.ws(path, callback) called while Context.current is sc
Ws(sc, re, cb) ==
  /\ Len(layers) < MaxLayers
  /\ sc \notin scopeEnded
  /\ LET l == Len(layers) + 1 IN
     /\ layers' = Append(layers, NewLayer(re, cb))
     /\ wsStack' = Append(wsStack, l)
     /\ layerScope' = Append(layerScope, sc)
     /\ disposables' = IF sc = NoScope THEN disposables
                       ELSE [disposables EXCEPT ![sc] = Append(@, [kind |-> "ws", id |-> l])]
     /\ op' = [name |-> "ws", arg |-> l]
  /\ closeInvoked' = {}
  /\ offered' = <<>>
  /\ cbLog' = <<>>
  /\ UNCHANGED <<stack, numRoutes, routeScope, scopeEnded, sockState, sockPath,
                 listeners, cbCount, config, host, port, http, wsServer,
                 readyPc, disposeInstalled, disposeCount, listenCalls, acquireCalls,
                 teardownLog>>

\* this._ws.on('connection', ...): socket s arrives with pathname p
Connection(s, p) ==
  /\ http = "listening"
  /\ wsServer = "open"
  /\ sockState[s] = "idle"
  /\ \A t \in Sockets : t < s => sockState[t] # "idle"
  /\ LET st == ConnLoop([layers |-> layers, listeners |-> listeners, cbCount |-> cbCount,
                         offered |-> <<>>, cbLog |-> <<>>, accepted |-> FALSE], 1, s, p)
         opened == [sockState EXCEPT ![s] = "open"]
     IN
     /\ layers' = st.layers
     /\ listeners' = st.listeners
     /\ cbCount' = st.cbCount
     /\ offered' = st.offered
     /\ cbLog' = st.cbLog
     /\ sockState' = IF st.accepted THEN opened ELSE UnmatchedClose(opened, s)
     /\ closeInvoked' = IF st.accepted THEN {}
                        ELSE {t \in {s} : UnmatchedClose(opened, s)[t] # "open"}
  /\ sockPath' = [sockPath EXCEPT ![s] = p]
  /\ op' = [name |-> "connection", arg |-> s]
  /\ UNCHANGED <<wsStack, stack, numRoutes, layerScope, routeScope, disposables,
                 scopeEnded, config, host, port, http, wsServer, readyPc,
                 disposeInstalled, disposeCount, listenCalls, acquireCalls, teardownLog>>

\* a 'close' event whose observer forgets to delete the socket from clients
SocketClosedKeep(s) ==
  /\ sockState[s] \in {"open", "closing"}
  /\ sockState' = [sockState EXCEPT ![s] = "closed"]
  /\ op' = [name |-> "socketClosed", arg |-> s]
  /\ closeInvoked' = {}
  /\ offered' = <<>>
  /\ cbLog' = <<>>
  /\ UNCHANGED <<layers, wsStack, stack, numRoutes, layerScope, routeScope, disposables,
                 scopeEnded, sockPath, listeners, cbCount, config, host,
                 port, http, wsServer, readyPc, disposeInstalled, disposeCount,
                 listenCalls, acquireCalls, teardownLog>>

\* the 'close' event of socket s (after close()/terminate(), or the peer went away)
SocketClosed(s) ==
  /\ sockState[s] \in {"open", "closing"}
  /\ sockState' = [sockState EXCEPT ![s] = "closed"]
  /\ layers' = [l \in 1..Len(layers) |->
                  IF l \in listeners[s]
                  THEN [layers[l] EXCEPT !.clients = @ \ {s}]
                  ELSE layers[l]]
  /\ op' = [name |-> "socketClosed", arg |-> s]
  /\ closeInvoked' = {}
  /\ offered' = <<>>
  /\ cbLog' = <<>>
  /\ UNCHANGED <<wsStack, stack, numRoutes, layerScope, routeScope, disposables,
                 scopeEnded, sockPath, listeners, cbCount, config, host,
                 port, http, wsServer, readyPc, disposeInstalled, disposeCount,
                 listenCalls, acquireCalls, teardownLog>>

\* layer.close() called on the handle ws() returned
LayerClose(l) ==
  /\ l \in 1..Len(layers)
  /\ LET st == LayerCloseOn([wsStack |-> wsStack, stack |-> stack,
                             sockState |-> sockState, closeInvoked |-> {}],
                            l, layers[l].clients)
     IN
     /\ wsStack' = st.wsStack
     /\ stack' = st.stack
     /\ sockState' = st.sockState
     /\ closeInvoked' = st.closeInvoked
  /\ op' = [name |-> IF l \in Range(wsStack) THEN "layerClose" ELSE "layerCloseAgain",
            arg |-> l]
  /\ offered' = <<>>
  /\ cbLog' = <<>>
  /\ UNCHANGED <<layers, numRoutes, layerScope, routeScope, disposables, scopeEnded,
                 sockPath, listeners, cbCount, config, host, port, http,
                 wsServer, readyPc, disposeInstalled, disposeCount, listenCalls,
                 acquireCalls, teardownLog>>

\* the end of scope sc: every cleanup closure it holds runs once
ScopeEnd(sc) ==
  /\ sc \in Scopes \ scopeEnded
  /\ LET st == RunDisposables([wsStack |-> wsStack, stack |-> stack,
                               sockState |-> sockState, closeInvoked |-> {}],
                              disposables[sc])
     IN
     /\ wsStack' = st.wsStack
     /\ stack' = st.stack
     /\ sockState' = st.sockState
     /\ closeInvoked' = st.closeInvoked
  /\ disposables' = [disposables EXCEPT ![sc] = <<>>]
  /\ scopeEnded' = scopeEnded \cup {sc}
  /\ op' = [name |-> "scopeEnd", arg |-> sc]
  /\ offered' = <<>>
  /\ cbLog' = <<>>
  /\ UNCHANGED <<layers, numRoutes, layerScope, routeScope, sockPath, listeners,
                 cbCount, config, host, port, http, wsServer, readyPc,
                 disposeInstalled, disposeCount, listenCalls, acquireCalls, teardownLog>>

\* ready handler that ignores whether a port is configured
ReadyNoPortTest ==
  /\ readyPc = "idle"
  /\ host' = config.host
  /\ acquireCalls' = acquireCalls + 1
  /\ readyPc' = "awaiting"
  /\ op' = [name |-> "ready", arg |-> 0]
  /\ closeInvoked' = {}
  /\ offered' = <<>>
  /\ cbLog' = <<>>
  /\ UNCHANGED <<layers, wsStack, stack, numRoutes, layerScope, routeScope, disposables,
                 scopeEnded, sockState, sockPath, listeners, cbCount, config,
                 port, http, wsServer, disposeInstalled, disposeCount,
                 listenCalls, teardownLog>>

\* ready handler that installs the dispose handler before awaiting the port
ReadyInstallEarly ==
  /\ readyPc = "idle"
  /\ IF config.port = NoPort
     THEN /\ readyPc' = "done"
          /\ UNCHANGED <<host, acquireCalls, disposeInstalled>>
     ELSE /\ host' = config.host
          /\ acquireCalls' = acquireCalls + 1
          /\ disposeInstalled' = TRUE
          /\ readyPc' = "awaiting"
  /\ op' = [name |-> "ready", arg |-> 0]
  /\ closeInvoked' = {}
  /\ offered' = <<>>
  /\ cbLog' = <<>>
  /\ UNCHANGED <<layers, wsStack, stack, numRoutes, layerScope, routeScope, disposables,
                 scopeEnded, sockState, sockPath, listeners, cbCount, config,
                 port, http, wsServer, disposeCount, listenCalls, teardownLog>>

\* the 'ready' signal: the handler runs up to its await (or returns at once)
Ready ==
  /\ readyPc = "idle"
  /\ IF config.port = NoPort
     THEN /\ readyPc' = "done"
          /\ UNCHANGED <<host, acquireCalls>>
     ELSE /\ host' = config.host
          /\ acquireCalls' = acquireCalls + 1
          /\ readyPc' = "awaiting"
  /\ op' = [name |-> "ready", arg |-> 0]
  /\ closeInvoked' = {}
  /\ offered' = <<>>
  /\ cbLog' = <<>>
  /\ UNCHANGED <<layers, wsStack, stack, numRoutes, layerScope, routeScope, disposables,
                 scopeEnded, sockState, sockPath, listeners, cbCount, config,
                 port, http, wsServer, disposeInstalled, disposeCount,
                 listenCalls, teardownLog>>

\* listen(config) resolved with p: the rest of the ready handler runs
Listening(p) ==
  /\ readyPc = "awaiting"
  /\ p \in ListenPorts(config)
  /\ port' = p
  /\ http' = "listening"
  /\ listenCalls' = listenCalls + 1
  /\ disposeInstalled' = TRUE
  /\ readyPc' = "done"
  /\ op' = [name |-> "listening", arg |-> p]
  /\ closeInvoked' = {}
  /\ offered' = <<>>
  /\ cbLog' = <<>>
  /\ UNCHANGED <<layers, wsStack, stack, numRoutes, layerScope, routeScope, disposables,
                 scopeEnded, sockState, sockPath, listeners, cbCount, config,
                 host, wsServer, disposeCount, acquireCalls, teardownLog>>

\* WebSocket.Server.close(): the server stops. Whether it also terminates the
\* connected sockets depends on the ws release installed (ws 7 and earlier do,
\* ws 8 and later do not): terminates ranges over both.
WsServerClose(ss, terminates) ==
  IF terminates /\ wsServer = "open"
  THEN [s \in Sockets |-> IF ss[s] = "open" THEN "closing" ELSE ss[s]]
  ELSE ss

\* dispose handler that closes the upgrade server and forgets the HTTP server
DisposeWsOnly(terminates) ==
  /\ readyPc # "idle"
  /\ disposeCount < MaxDispose
  /\ disposeCount' = disposeCount + 1
  /\ IF disposeInstalled
     THEN /\ wsServer' = "closed"
          /\ sockState' = WsServerClose(sockState, terminates)
          /\ teardownLog' = <<"ws">>
          /\ UNCHANGED http
     ELSE UNCHANGED <<wsServer, sockState, http, teardownLog>>
  /\ op' = [name |-> "dispose", arg |-> 0]
  /\ closeInvoked' = {}
  /\ offered' = <<>>
  /\ cbLog' = <<>>
  /\ UNCHANGED <<layers, wsStack, stack, numRoutes, layerScope, routeScope, disposables,
                 scopeEnded, sockPath, listeners, cbCount, config, host,
                 port, readyPc, disposeInstalled, listenCalls, acquireCalls>>

\* the 'dispose' signal: the handler installed by the ready handler, if any, runs
Dispose(terminates) ==
  /\ readyPc # "idle"
  /\ disposeCount < MaxDispose
  /\ disposeCount' = disposeCount + 1
  /\ IF disposeInstalled
     THEN /\ wsServer' = "closed"
          /\ sockState' = WsServerClose(sockState, terminates)
          /\ http' = "closed"
          /\ teardownLog' = <<"ws", "http">>
     ELSE UNCHANGED <<wsServer, sockState, http, teardownLog>>
  /\ op' = [name |-> "dispose", arg |-> 0]
  /\ closeInvoked' = {}
  /\ offered' = <<>>
  /\ cbLog' = <<>>
  /\ UNCHANGED <<layers, wsStack, stack, numRoutes, layerScope, routeScope, disposables,
                 scopeEnded, sockPath, listeners, cbCount, config, host,
                 port, readyPc, disposeInstalled, listenCalls, acquireCalls>>

\* a read of router.selfUrl; op.arg is the string returned
SelfUrlRead ==
  /\ op' = [name |-> "selfUrl", arg |-> SelfUrl(host, port)]
  /\ closeInvoked' = {}
  /\ offered' = <<>>
  /\ cbLog' = <<>>
  /\ UNCHANGED <<layers, wsStack, stack, numRoutes, layerScope, routeScope, disposables,
                 scopeEnded, sockState, sockPath, listeners, cbCount, config, host,
                 port, http, wsServer, readyPc, disposeInstalled, disposeCount,
                 listenCalls, acquireCalls, teardownLog>>

\* every caller of the Router at once
Next ==
  \/ \E sc \in Scopes \cup {NoScope} : Register(sc)
  \/ \E sc \in Scopes \cup {NoScope}, re \in Patterns, cb \in BOOLEAN : Ws(sc, re, cb)
  \/ \E s \in Sockets, p \in Paths : Connection(s, p)
  \/ \E s \in Sockets : SocketClosed(s)
  \/ \E l \in Layers : LayerClose(l)
  \/ \E sc \in Scopes : ScopeEnd(sc)
  \/ Ready
  \/ \E p \in 1..MaxPort : Listening(p)
  \/ \E terminates \in BOOLEAN : Dispose(terminates)
  \/ SelfUrlRead

Spec == Init /\ [][Next]_vars

\* the Router serving connections: registrations are made outside any plugin
\* scope, the server is started and torn down, peers connect and disconnect
NextDispatch ==
  \/ Register(NoScope)
  \/ \E re \in Patterns, cb \in BOOLEAN : Ws(NoScope, re, cb)
  \/ \E s \in Sockets, p \in Paths : Connection(s, p)
  \/ \E s \in Sockets : SocketClosed(s)
  \/ \E l \in Layers : LayerClose(l)
  \/ Ready
  \/ \E p \in 1..MaxPort : Listening(p)
  \/ \E terminates \in BOOLEAN : Dispose(terminates)

SpecDispatch == Init /\ [][NextDispatch]_vars

\* plugins registering and unloading against a Router that is never started
NextScope ==
  \/ \E sc \in Scopes \cup {NoScope} : Register(sc)
  \/ \E sc \in Scopes \cup {NoScope} : Ws(sc, {"/a"}, FALSE)
  \/ \E l \in Layers : LayerClose(l)
  \/ \E sc \in Scopes : ScopeEnd(sc)

SpecScope == Init /\ [][NextScope]_vars

\* the server lifecycle, with registrations by one plugin scope and by none
NextLife ==
  \/ \E sc \in {"A", NoScope} : Register(sc)
  \/ \E sc \in {"A", NoScope} : Ws(sc, {"/a"}, FALSE)
  \/ ScopeEnd("A")
  \/ Ready
  \/ \E p \in 1..MaxPort : Listening(p)
  \/ \E terminates \in BOOLEAN : Dispose(terminates)

SpecLife == Init /\ [][NextLife]_vars

\* a plugin registering, serving connections and unloading while the server
\* is started and torn down, next to registrations made outside any scope
NextUnload ==
  \/ \E sc \in {"A", NoScope} : Register(sc)
  \/ \E sc \in {"A", NoScope} : Ws(sc, {"/a"}, FALSE)
  \/ \E s \in Sockets, p \in Paths : Connection(s, p)
  \/ \E s \in Sockets : SocketClosed(s)
  \/ \E l \in Layers : LayerClose(l)
  \/ ScopeEnd("A")
  \/ Ready
  \/ \E p \in 1..MaxPort : Listening(p)
  \/ \E terminates \in BOOLEAN : Dispose(terminates)

SpecUnload == Init /\ [][NextUnload]_vars

\* the close event of a socket on which close() has been called
CloseDelivered(s) == sockState[s] = "closing" /\ SocketClosed(s)

\* layers serving and closing on a started server; the close event of every
\* socket that was told to close is delivered in the end
NextClose ==
  \/ \E re \in Patterns : Ws(NoScope, re, FALSE)
  \/ \E s \in Sockets, p \in Paths : Connection(s, p)
  \/ \E s \in Sockets : SocketClosed(s)
  \/ \E l \in Layers : LayerClose(l)
  \/ Ready
  \/ \E p \in 1..MaxPort : Listening(p)

SpecClose ==
  Init /\ [][NextClose]_vars /\ \A s \in Sockets : WF_vars(CloseDelivered(s))

\* the configurations the address accessor is read under
UrlHosts == {"0.0.0.0", "::", "192.168.1.5", "localhost"}
UrlPorts == {80, 443, 8080}
UrlConfigs ==
  [host : UrlHosts \cup {NoHost}, port : {NoPort}] \cup [host : UrlHosts, port : UrlPorts]

\* the Router as constructed, under one of the UrlConfigs
InitUrl ==
  /\ layers = <<>>
  /\ wsStack = <<>>
  /\ stack = <<>>
  /\ numRoutes = 0
  /\ layerScope = <<>>
  /\ routeScope = <<>>
  /\ disposables = [sc \in Scopes |-> <<>>]
  /\ scopeEnded = {}
  /\ sockState = [s \in Sockets |-> "idle"]
  /\ sockPath = [s \in Sockets |-> NoPath]
  /\ listeners = [s \in Sockets |-> {}]
  /\ cbCount = [l \in Layers |-> [s \in Sockets |-> 0]]
  /\ config \in UrlConfigs
  /\ host = NoHost
  /\ port = NoPort
  /\ http = "created"
  /\ wsServer = "open"
  /\ readyPc = "idle"
  /\ disposeInstalled = FALSE
  /\ disposeCount = 0
  /\ listenCalls = 0
  /\ acquireCalls = 0
  /\ op = [name |-> "new", arg |-> 0]
  /\ closeInvoked = {}
  /\ offered = <<>>
  /\ cbLog = <<>>
  /\ teardownLog = <<>>

\* the lifecycle with reads of selfUrl at every point of it
NextUrl ==
  \/ Ready
  \/ \E p \in UrlPorts : Listening(p)
  \/ \E terminates \in BOOLEAN : Dispose(terminates)
  \/ SelfUrlRead

SpecUrl == InitUrl /\ [][NextUrl]_vars

TypeOK ==
  /\ Len(layers) <= MaxLayers
  /\ Range(wsStack) \subseteq 1..Len(layers)
  /\ Range(stack) \subseteq 1..numRoutes
  /\ \A s \in Sockets : sockState[s] \in {"idle", "open", "closing", "closed"}
  /\ http \in {"created", "listening", "closed"}
  /\ readyPc \in {"idle", "awaiting", "done"}

\* ------------------------------------------------------------- claims

\* positions of wsStack whose layer matches the pathname of socket s
MatchingAt(s) ==
  {k \in 1..Len(wsStack) : sockPath[s] \in layers[wsStack[k]].regexp}

MinOf(S) == CHOOSE x \in S : \A y \in S : x <= y

LayerIds == 1..Len(layers)

\* C1: first match wins. When the connection handler has dispatched a socket
\* whose pathname matches layers at several positions of wsStack, accept() was
\* called on the layers in list order up to the first matching one, that layer
\* alone holds the socket, and in no later state does another layer hold the
\* socket or has its callback run for it.
C1_FirstMatchWins ==
  /\ \A s \in Sockets :
       /\ Cardinality(listeners[s]) <= 1
       /\ \A l \in LayerIds :
            (s \in layers[l].clients \/ cbCount[l][s] > 0) => l \in listeners[s]
  /\ (op.name = "connection" /\ MatchingAt(op.arg) # {}) =>
       LET s == op.arg
           i == MinOf(MatchingAt(s))
       IN /\ offered = SubSeq(wsStack, 1, i)
          /\ listeners[s] = {wsStack[i]}
          /\ s \in layers[wsStack[i]].clients
          /\ \A j \in MatchingAt(s) :
               j > i => /\ s \notin layers[wsStack[j]].clients
                        /\ cbCount[wsStack[j]][s] = 0

\* a connection has just been dispatched with two layers matching its pathname
C1_Witness ==
  /\ op.name = "connection"
  /\ Cardinality(MatchingAt(op.arg)) >= 2
  /\ \A k \in MatchingAt(op.arg) : layers[wsStack[k]].callback

\* C2: a connection matching no layer of wsStack (an empty wsStack included)
\* has close() called on its socket by the handler, joins no clients set and
\* triggers no callback; no socket is open without a layer having accepted it.
C2_UnmatchedClosed ==
  /\ \A s \in Sockets : sockState[s] = "open" => listeners[s] # {}
  /\ (op.name = "connection" /\ MatchingAt(op.arg) = {}) =>
       LET s == op.arg IN
       /\ offered = wsStack
       /\ closeInvoked = {s}
       /\ sockState[s] \in {"closing", "closed"}
       /\ listeners[s] = {}
       /\ \A l \in LayerIds : s \notin layers[l].clients /\ cbCount[l][s] = 0

\* a connection has just been dispatched past a non-empty wsStack without a match
C2_Witness ==
  /\ op.name = "connection"
  /\ wsStack # <<>>
  /\ MatchingAt(op.arg) = {}

\* a connection has just been dispatched while wsStack was empty
C2_WitnessEmpty ==
  /\ op.name = "connection"
  /\ wsStack = <<>>

\* C3: close() on layer L takes L out of wsStack and calls close() on every
\* socket in L.clients; from then on L never returns to wsStack, no connection
\* is offered to it and its clients set gains nothing.
C3_CloseStep ==
  op.name = "layerClose" =>
    /\ op.arg \notin Range(wsStack)
    /\ closeInvoked = layers[op.arg].clients
    /\ \A s \in layers[op.arg].clients : sockState[s] # "open"

C3_NoLaterOffer ==
  op.name = "connection" => Range(offered) \subseteq Range(wsStack)

C3_StaysOut ==
  \A l \in LayerIds :
    l \notin Range(wsStack) =>
      /\ l \notin Range(wsStack')
      /\ layers'[l].clients \subseteq layers[l].clients

\* C3: the close step removes L and closes its sockets, and L stays out of
\* dispatch ever after.
C3_CloseRemovesLayer ==
  /\ [](C3_CloseStep /\ C3_NoLaterOffer)
  /\ [][C3_StaysOut]_vars

\* after L was closed a connection whose pathname L matches has been dispatched
C3_Witness ==
  /\ op.name = "connection"
  /\ \E l \in LayerIds :
       /\ l \notin Range(wsStack)
       /\ sockPath[op.arg] \in layers[l].regexp
       /\ layers[l].clients # {}

\* the step was a call of layer.close() (first or repeated)
IsLayerClose(o) == o.name \in {"layerClose", "layerCloseAgain"}

\* C4: frame of close(). A step that closes layer L leaves every other layer
\* (its clients set included) unchanged, invokes close() on no socket held by
\* another layer and changes the state of no such socket, keeps the other
\* layers of wsStack in their order, and leaves the HTTP route stack alone.
C4_Step ==
  IsLayerClose(op') =>
    LET L == op'.arg
        Other(l) == l # L
    IN /\ layers' = layers
       /\ \A k \in LayerIds \ {L} : closeInvoked' \cap layers[k].clients = {}
       /\ \A s \in Sockets : sockState'[s] # sockState[s] => s \in layers[L].clients
       /\ wsStack' = SelectSeq(wsStack, Other)
       /\ stack' = stack

\* C4: every step satisfies the frame of close().
C4_CloseFrame == [][C4_Step]_vars

\* a layer holding a socket has just been closed while another layer, still
\* registered, holds an open socket and a route is registered
C4_Witness ==
  /\ op.name = "layerClose"
  /\ closeInvoked # {}
  /\ stack # <<>>
  /\ \E k \in Range(wsStack) : \E s \in layers[k].clients : sockState[s] = "open"

\* C5: scope round trip. The step that ends scope A leaves in wsStack and in
\* the route stack exactly the entries that were not registered under A, in the
\* order they had, whatever another scope registered in between.
C5_Step ==
  (op'.name = "scopeEnd" /\ scopeEnded' # scopeEnded) =>
    LET A == op'.arg
        NotOfA(l) == layerScope[l] # A
        RouteNotOfA(r) == routeScope[r] # A
    IN /\ wsStack' = SelectSeq(wsStack, NotOfA)
       /\ stack' = SelectSeq(stack, RouteNotOfA)

\* C5: every step that ends a scope restores both stacks to what the other
\* registrations alone make them.
C5_ScopeRoundTrip == [][C5_Step]_vars

\* scope A, which registered two routes and a layer around a layer of scope B,
\* has just ended while B has not: only B's layer is left
C5_Witness ==
  /\ op = [name |-> "scopeEnd", arg |-> "A"]
  /\ "B" \notin scopeEnded
  /\ routeScope = <<"A", "A">>
  /\ layerScope = <<"B", "A">>
  /\ wsStack = <<1>>
  /\ stack = <<>>

\* C6 as stated: a repeated close() of a layer leaves wsStack unchanged and
\* invokes close() on no socket again.
C6_Original_Step ==
  op'.name = "layerCloseAgain" => (wsStack' = wsStack /\ closeInvoked' = {})

\* C6 as stated, for every step.
C6_Original == [][C6_Original_Step]_vars

\* C6 (amended): a repeated close() of layer L changes neither wsStack nor any
\* layer nor the state of any socket; it invokes close() again exactly on the
\* sockets still in L.clients, all of which are already closing, so that once
\* their close events are delivered it invokes close() on no socket.
C6_Step ==
  op'.name = "layerCloseAgain" =>
    /\ wsStack' = wsStack
    /\ stack' = stack
    /\ layers' = layers
    /\ sockState' = sockState
    /\ closeInvoked' = layers[op'.arg].clients
    /\ \A s \in closeInvoked' : sockState[s] = "closing"

\* C6 (amended), for every step: a repeated close() changes nothing and
\* re-invokes close() only on the layer's sockets that are still closing.
C6_CloseIdempotent == [][C6_Step]_vars

\* a layer has been closed again while a socket closed by the first call still
\* awaits its close event, with another layer still registered
C6_Witness ==
  /\ op.name = "layerCloseAgain"
  /\ closeInvoked # {}
  /\ wsStack # <<>>

\* a layer has been closed again after the close events were delivered
C6_WitnessDrained ==
  /\ op.name = "layerCloseAgain"
  /\ closeInvoked = {}
  /\ \E s \in Sockets : op.arg \in listeners[s] /\ sockState[s] = "closed"

\* C7: the server handle moves only from created (Unconfigured) to listening
\* to closed. listen is called at most once; only the disposing signal takes
\* a listening server to closed, and it does so whenever it is delivered to a
\* listening server; a later delivery changes nothing; a closed server never
\* listens again.
C7_Step ==
  /\ http = "created" => http' \in {"created", "listening"}
  /\ http = "listening" => http' \in {"listening", "closed"}
  /\ http = "closed" => http' = "closed"
  /\ (http = "listening" /\ http' = "closed") => op'.name = "dispose"
  /\ (disposeCount' = disposeCount + 1 /\ http = "listening") =>
       (http' = "closed" /\ wsServer' = "closed")
  /\ (disposeCount' = disposeCount + 1 /\ http = "closed") =>
       (wsServer' = wsServer /\ sockState' = sockState /\ layers' = layers
        /\ wsStack' = wsStack /\ stack' = stack)

\* C7: listen is called at most once and every step follows the one-way
\* machine created -> listening -> closed.
C7_OneWay == [](listenCalls <= 1) /\ [][C7_Step]_vars

\* the disposing signal has been delivered a second time to a closed server
C7_Witness ==
  /\ op.name = "dispose"
  /\ disposeCount = 2
  /\ http = "closed"
  /\ listenCalls = 1

\* C8: with no port configured the ready handler acquires no port, calls no
\* listen, sets neither host nor port and installs no dispose handler, so the
\* server stays unconfigured; ws(), register() and the scope cleanups change
\* wsStack and the route stack as they do for every configuration.
C8_NeverBinds ==
  config.port = NoPort =>
    /\ http = "created"
    /\ wsServer = "open"
    /\ host = NoHost
    /\ port = NoPort
    /\ ~disposeInstalled
    /\ acquireCalls = 0
    /\ listenCalls = 0
    /\ readyPc \in {"idle", "done"}

C8_RegStep ==
  /\ Len(layers') # Len(layers) =>
       (wsStack' = Append(wsStack, Len(layers')) /\ stack' = stack)
  /\ numRoutes' # numRoutes =>
       (stack' = Append(stack, numRoutes') /\ wsStack' = wsStack)
  /\ scopeEnded' # scopeEnded =>
       LET Kept(l) == layerScope[l] \notin scopeEnded'
           RouteKept(r) == routeScope[r] \notin scopeEnded'
       IN wsStack' = SelectSeq(wsStack, Kept) /\ stack' = SelectSeq(stack, RouteKept)

\* C8: without a port the server never binds, and registration and removal
\* act on the two stacks all the same.
C8_LibraryMode == []C8_NeverBinds /\ [][C8_RegStep]_vars

\* without a port, but with a host, the ready and disposing signals have been
\* delivered and a scope that registered a route and a layer has ended while
\* other registrations remain
C8_Witness ==
  /\ config.port = NoPort
  /\ config.host # NoHost
  /\ readyPc = "done"
  /\ disposeCount > 0
  /\ "A" \in scopeEnded
  /\ "A" \in Range(layerScope)
  /\ "A" \in Range(routeScope)
  /\ wsStack # <<>>
  /\ stack # <<>>

\* C9 as stated: the server is listening exactly when a port is configured
\* and the ready handler has run to its end.
C9_Original ==
  (http = "listening") <=> (config.port # NoPort /\ readyPc = "done")

\* C9 (amended): the server is listening exactly when a port is configured,
\* the ready handler has run to its end and the dispose handler has not run.
C9_ListeningIff ==
  (http = "listening") <=>
    (config.port # NoPort /\ readyPc = "done" /\ teardownLog = <<>>)

\* the server is listening although the disposing signal was delivered while
\* the ready handler awaited its port
C9_Witness ==
  /\ http = "listening"
  /\ disposeCount > 0

\* the server was listening and has been torn down
C9_WitnessClosed ==
  /\ http = "closed"
  /\ readyPc = "done"
  /\ config.port # NoPort

\* C10: the dispose handler closes the upgrade server, then the HTTP server,
\* and after it ran no socket held by a layer is still open.
C10_TeardownClosesSockets ==
  teardownLog # <<>> =>
    /\ teardownLog = <<"ws", "http">>
    /\ \A l \in LayerIds : \A s \in layers[l].clients : sockState[s] # "open"

\* C11: selfUrl is a function of host and port alone. Every read returns
\* http://127.0.0.1:<port> when host is 0.0.0.0 or ::, and http://<host>:<port>
\* with the host as it is otherwise; a read changes no field of the Router.
C11_Value ==
  op.name = "selfUrl" =>
    /\ (host = "0.0.0.0" \/ host = "::") =>
         op.arg = "http://127.0.0.1:" \o PortText(port)
    /\ ~(host = "0.0.0.0" \/ host = "::") =>
         op.arg = "http://" \o host \o ":" \o PortText(port)
    /\ (host = "0.0.0.0" /\ port = 8080) => op.arg = "http://127.0.0.1:8080"
    /\ (host = "::" /\ port = 443) => op.arg = "http://127.0.0.1:443"
    /\ (host = "192.168.1.5" /\ port = 80) => op.arg = "http://192.168.1.5:80"

C11_ReadStep ==
  op'.name = "selfUrl" =>
    UNCHANGED <<layers, wsStack, stack, numRoutes, disposables, sockState, listeners,
                config, host, port, http, wsServer, readyPc, disposeInstalled,
                listenCalls, teardownLog>>

\* C11: the value of every read, and the frame of every read.
C11_SelfUrl == []C11_Value /\ [][C11_ReadStep]_vars

\* selfUrl has been read on a Router listening on the IPv6 any-address
C11_Witness ==
  /\ op.name = "selfUrl"
  /\ host = "::"
  /\ port = 443
  /\ http = "listening"

\* selfUrl has been read on a Router bound to a concrete address
C11_WitnessVerbatim ==
  /\ op.name = "selfUrl"
  /\ host = "192.168.1.5"
  /\ port = 80

\* the layers whose clients set holds socket s
HoldersOf(s) == {l \in LayerIds : s \in layers[l].clients}

\* C12: no socket is in the clients sets of two layers, and every socket in a
\* layer's clients set has a pathname the layer's pattern matches.
C12_OneLayerPerSocket ==
  \A s \in Sockets :
    /\ Cardinality(HoldersOf(s)) <= 1
    /\ \A l \in HoldersOf(s) : sockPath[s] \in layers[l].regexp

\* two sockets are held, by different layers, and the pathname of one of them
\* is matched by both layers
C12_Witness ==
  \E s, t \in Sockets, k, l \in LayerIds :
    /\ k # l
    /\ HoldersOf(s) = {k}
    /\ HoldersOf(t) = {l}
    /\ sockPath[s] \in layers[l].regexp

\* C13: a socket joins L.clients only in the dispatch step in which L accepts
\* it, and leaves it only in the step of its own close event, which removes
\* it from every clients set and touches no other socket, no other membership
\* and no dispatch list; a held socket is never closed, a closed one never held.
C13_Held ==
  \A s \in Sockets :
    /\ HoldersOf(s) # {} => sockState[s] \in {"open", "closing"}
    /\ sockState[s] \in {"idle", "closed"} => HoldersOf(s) = {}

C13_Step ==
  /\ \A s \in Sockets : \A l \in LayerIds :
       /\ (s \notin layers[l].clients /\ s \in layers'[l].clients) =>
            /\ op' = [name |-> "connection", arg |-> s]
            /\ offered'[Len(offered')] = l
            /\ sockPath'[s] \in layers[l].regexp
       /\ (s \in layers[l].clients /\ s \notin layers'[l].clients) =>
            /\ op' = [name |-> "socketClosed", arg |-> s]
            /\ sockState'[s] = "closed"
  /\ (op'.name = "socketClosed" /\ sockState' # sockState) =>
       LET s == op'.arg IN
       /\ \A l \in LayerIds : layers'[l].clients = layers[l].clients \ {s}
       /\ \A t \in Sockets \ {s} : sockState'[t] = sockState[t]
       /\ wsStack' = wsStack
       /\ stack' = stack
       /\ listeners' = listeners

\* C13: membership follows accept and the close event, in every state and step.
C13_MembershipTracksLiveness == []C13_Held /\ [][C13_Step]_vars

\* the close event of a socket that its layer's close() had closed has been
\* delivered while another socket is still held and open
C13_Witness ==
  /\ op.name = "socketClosed"
  /\ listeners[op.arg] # {}
  /\ \A l \in listeners[op.arg] : l \notin Range(wsStack)
  /\ HoldersOf(op.arg) = {}
  /\ \E t \in Sockets : HoldersOf(t) # {} /\ sockState[t] = "open"

\* the close event of an accepted socket has been delivered after teardown
C13_WitnessTeardown ==
  /\ op.name = "socketClosed"
  /\ listeners[op.arg] # {}
  /\ listeners[op.arg] \subseteq Range(wsStack)
  /\ teardownLog # <<>>

\* the callback invocations the last step made on layer l
CallsOn(l) == {i \in 1..Len(cbLog) : cbLog[i].layer = l}

\* C14: after a dispatch, every layer that was offered the connection and
\* matches its pathname has run its callback, if it has one, exactly once and
\* with the socket already in clients; a layer that does not match, or has no
\* callback, has run none. No callback ever runs twice for a socket.
C14_Calls ==
  /\ \A l \in LayerIds : \A s \in Sockets : cbCount[l][s] <= 1
  /\ op.name = "connection" =>
       LET s == op.arg IN
       \A l \in LayerIds :
         IF l \in Range(offered) /\ sockPath[s] \in layers[l].regexp /\ layers[l].callback
         THEN /\ Cardinality(CallsOn(l)) = 1
              /\ \A i \in CallsOn(l) : cbLog[i].socket = s /\ cbLog[i].member
              /\ cbCount[l][s] = 1
         ELSE /\ CallsOn(l) = {}
              /\ cbCount[l][s] = 0

\* C14: an accept() on a layer that does not match returns a falsy value (the
\* handler goes on to the next layer, or closes the socket after the last)
\* and leaves the layer's clients and the socket's listeners as they were.
C14_MismatchStep ==
  op'.name = "connection" =>
    LET s == op'.arg IN
    \A i \in 1..Len(offered') :
      LET l == offered'[i] IN
      sockPath'[s] \notin layers[l].regexp =>
        /\ layers'[l] = layers[l]
        /\ l \notin listeners'[s]
        /\ (i < Len(offered') \/ closeInvoked' = {s})

\* C14: callbacks run once, on a match only, after the socket joined clients.
C14_CallbackOnce == []C14_Calls /\ [][C14_MismatchStep]_vars

\* a connection went past a layer that does not match it and was accepted by
\* the next one, whose callback ran
C14_Witness ==
  /\ op.name = "connection"
  /\ Len(offered) = 2
  /\ sockPath[op.arg] \notin layers[offered[1]].regexp
  /\ Len(cbLog) = 1
  /\ cbLog[1].layer = offered[2]

\* a connection was accepted by a layer without a callback
C14_WitnessNoCallback ==
  /\ op.name = "connection"
  /\ HoldersOf(op.arg) # {}
  /\ cbLog = <<>>

\* sequence q without the elements of set gone, order kept
Without(q, gone) == LET Keep(x) == x \notin gone IN SelectSeq(q, Keep)

\* C15: wsStack lists layers in the order of their ws() calls (layer ids are
\* handed out in call order), each at most once.
C15_Ordered ==
  /\ \A i \in 1..Len(wsStack) : wsStack[i] \in LayerIds
  /\ \A i, j \in 1..Len(wsStack) : i < j => wsStack[i] < wsStack[j]

\* C15: a registration appends the new layer at the end; a close deletes only
\* the closed layer; the end of a scope deletes only that scope's layers; no
\* step reorders two layers that both stay registered.
C15_Step ==
  /\ op'.name = "ws" => wsStack' = Append(wsStack, op'.arg)
  /\ op'.name \in {"layerClose", "layerCloseAgain"} =>
       wsStack' = Without(wsStack, {op'.arg})
  /\ op'.name = "scopeEnd" =>
       wsStack' = Without(wsStack, {l \in LayerIds : layerScope[l] = op'.arg})
  /\ op'.name \notin {"ws", "layerClose", "layerCloseAgain", "scopeEnd"} =>
       wsStack' = wsStack
  /\ \A i, j \in 1..Len(wsStack) : \A m, n \in 1..Len(wsStack') :
       (i < j /\ wsStack'[m] = wsStack[i] /\ wsStack'[n] = wsStack[j]) => m < n

C15_WitnessBoth ==
  /\ op.name = "ws"
  /\ wsStack = <<1, 2>>
  /\ layerScope[1] # layerScope[2]

\* C16: host and port are both unset until the ready handler has told the
\* server to listen (stated as the claim has it; line 95 assigns host before
\* the await of line 96).
C16_UnsetUntilListening ==
  /\ readyPc # "done" => (host = NoHost /\ port = NoPort)
  /\ (host # NoHost \/ port # NoPort) => listenCalls > 0

\* C19: once the dispose signal has fired and the ready handler has finished,
\* the server is not listening (stated as the claim has it; the dispose
\* handler is installed at line 99, after the await of line 96).
C19_TeardownReachable ==
  (disposeCount > 0 /\ readyPc = "done") => http # "listening"

\* the state a cleanup closure works on, as it is now
Current ==
  [wsStack |-> wsStack, stack |-> stack, sockState |-> sockState, closeInvoked |-> {}]

RoutesOf(sc) == {r \in 1..numRoutes : routeScope[r] = sc}
LayersOf(sc) == {l \in LayerIds : layerScope[l] = sc}

\* the closures a scope has been handed: one per route and per layer it made
ClosuresOf(sc) ==
  {[kind |-> "route", id |-> r] : r \in RoutesOf(sc)}
    \cup {[kind |-> "ws", id |-> l] : l \in LayersOf(sc)}

\* socket states after close() has been invoked on the sockets of cl
AfterClose(cl) ==
  [s \in Sockets |-> IF s \in cl /\ sockState[s] = "open" THEN "closing" ELSE sockState[s]]

\* C17: a scope that has not ended holds exactly one cleanup closure for each
\* route and each layer registered under it and nothing else; a scope that
\* has ended holds none, so nothing is released a second time. Run on the
\* present state, a route's closure removes that route and nothing else, and a
\* layer's closure removes that layer and invokes close() on that layer's
\* sockets and no others.
C17_Closures ==
  /\ \A sc \in Scopes :
       IF sc \in scopeEnded THEN disposables[sc] = <<>>
       ELSE /\ Range(disposables[sc]) = ClosuresOf(sc)
            /\ Len(disposables[sc]) = Cardinality(ClosuresOf(sc))
  /\ \A sc \in Scopes : \A i \in 1..Len(disposables[sc]) :
       LET d == disposables[sc][i]
           after == RunDisposable(Current, d)
       IN IF d.kind = "route"
          THEN /\ after.stack = Without(stack, {d.id})
               /\ after.wsStack = wsStack
               /\ after.sockState = sockState
               /\ after.closeInvoked = {}
          ELSE /\ after.wsStack = Without(wsStack, {d.id})
               /\ after.stack = stack
               /\ after.sockState = AfterClose(layers[d.id].clients)
               /\ after.closeInvoked = layers[d.id].clients

\* C17: a registration under a scope adds its entry and pushes one closure
\* for it onto that scope's disposables only; a registration under no scope
\* adds the entry and pushes nothing; the end of a scope releases each of its
\* routes and layers and empties its disposables; no other step touches any
\* scope's disposables.
C17_Step ==
  /\ op'.name = "register" =>
       LET r == op'.arg
           sc == routeScope'[r]
       IN /\ stack' = Append(stack, r)
          /\ disposables' =
               IF sc = NoScope THEN disposables
               ELSE [disposables EXCEPT ![sc] = Append(@, [kind |-> "route", id |-> r])]
  /\ op'.name = "ws" =>
       LET l == op'.arg
           sc == layerScope'[l]
       IN /\ wsStack' = Append(wsStack, l)
          /\ disposables' =
               IF sc = NoScope THEN disposables
               ELSE [disposables EXCEPT ![sc] = Append(@, [kind |-> "ws", id |-> l])]
  /\ op'.name = "scopeEnd" =>
       LET sc == op'.arg IN
       /\ stack' = Without(stack, RoutesOf(sc))
       /\ wsStack' = Without(wsStack, LayersOf(sc))
       /\ closeInvoked' = UNION {layers[l].clients : l \in LayersOf(sc)}
       /\ sockState' = AfterClose(closeInvoked')
       /\ disposables' = [disposables EXCEPT ![sc] = <<>>]
  /\ op'.name \notin {"register", "ws", "scopeEnd"} => disposables' = disposables

\* C17: one cleanup closure per scoped registration, none without a scope,
\* each resource of a scope released once at its end.
C17_OneCleanupEach == []C17_Closures /\ [][C17_Step]_vars

\* a scope that made a route and a layer holding a socket has ended, next to a
\* route and a layer registered under no scope, which stay
C17_Witness ==
  /\ op.name = "scopeEnd"
  /\ RoutesOf(op.arg) # {} /\ LayersOf(op.arg) # {}
  /\ closeInvoked # {}
  /\ stack # <<>> /\ wsStack # <<>>

\* a registration was made under no scope
C17_WitnessNoScope ==
  /\ op.name \in {"register", "ws"}
  /\ \A sc \in Scopes : disposables[sc] = <<>>

\* a closure's resource is gone: the route is no longer in the route stack, the
\* layer is no longer in wsStack, or the server was torn down and no socket
\* is open any more
Gone(d) ==
  IF d.kind = "route" THEN d.id \notin Range(stack)
  ELSE \/ d.id \notin Range(wsStack)
       \/ (wsServer = "closed" /\ \A s \in Sockets : sockState[s] # "open")

\* C18 as stated: the end of a scope all of whose resources are already gone
\* changes neither wsStack, the route stack, nor any layer's clients.
C18_Original_Step ==
  (/\ op'.name = "scopeEnd"
   /\ \A i \in 1..Len(disposables[op'.arg]) : Gone(disposables[op'.arg][i]))
    => (wsStack' = wsStack /\ stack' = stack /\ layers' = layers)

\* C18 as stated, for every step.
C18_Original == [][C18_Original_Step]_vars

\* C18 (amended): run in any state, the closure of a route that is no longer
\* in the route stack, and the closure of a layer that is no longer in
\* wsStack, change nothing at all. The closure of a layer that is still in
\* wsStack after the server was torn down removes that layer, and only it,
\* from wsStack, leaves the route stack alone and invokes close() on that
\* layer's sockets only; if teardown left no socket open it changes no socket.
C18_Closure ==
  /\ \A r \in 1..numRoutes :
       (routeScope[r] # NoScope /\ r \notin Range(stack)) =>
         RunDisposable(Current, [kind |-> "route", id |-> r]) = Current
  /\ \A l \in LayerIds :
       LET after == RunDisposable(Current, [kind |-> "ws", id |-> l]) IN
       layerScope[l] # NoScope =>
         /\ l \notin Range(wsStack) =>
              /\ after.wsStack = wsStack
              /\ after.stack = stack
              /\ after.sockState = sockState
              /\ after.closeInvoked = layers[l].clients
         /\ (l \in Range(wsStack) /\ wsServer = "closed") =>
              /\ after.wsStack = Without(wsStack, {l})
              /\ after.stack = stack
              /\ after.closeInvoked = layers[l].clients
              /\ after.sockState = AfterClose(layers[l].clients)
              /\ (\A s \in Sockets : sockState[s] # "open") => after.sockState = sockState

\* C18 (amended): the end of a scope changes no layer's clients, and when
\* none of its routes and layers is still registered it changes neither
\* wsStack nor the route stack nor any socket.
C18_Step ==
  op'.name = "scopeEnd" =>
    /\ layers' = layers
    /\ (\A i \in 1..Len(disposables[op'.arg]) :
          LET d == disposables[op'.arg][i] IN
          d.id \notin Range(IF d.kind = "route" THEN stack ELSE wsStack))
         => (wsStack' = wsStack /\ stack' = stack /\ sockState' = sockState)

\* C18 (amended): a cleanup whose resource is gone is harmless; after
\* teardown it still takes its own layer out of wsStack.
C18_LateCleanupSafe == []C18_Closure /\ [][C18_Step]_vars

\* a scope ended after the server was torn down: its layer, which held a
\* socket, left wsStack
C18_Witness ==
  /\ op.name = "scopeEnd"
  /\ wsServer = "closed"
  /\ closeInvoked # {}
  /\ \E l \in LayersOf(op.arg) : l \notin Range(wsStack)

\* a scope ended after its layer, which had held a socket, was closed by hand
C18_WitnessExplicit ==
  /\ op.name = "scopeEnd"
  /\ wsServer = "open"
  /\ closeInvoked # {}
  /\ \A s \in closeInvoked : sockState[s] = "closing"

\* layer l has been closed and not re-registered: it is off the dispatch list
Closed(l) == l \in LayerIds /\ l \notin Range(wsStack)

\* C20: close() itself leaves every clients set as it was, and a closed
\* layer whose clients set is empty keeps it empty.
C20_Step ==
  /\ IsLayerClose(op') => layers' = layers
  /\ \A l \in LayerIds :
       (Closed(l) /\ layers[l].clients = {}) => layers'[l].clients = {}

\* C20: once a layer has been closed, and the close events of the sockets it
\* told to close are delivered, its clients set becomes empty.
C20_Eventually ==
  \A l \in Layers : Closed(l) ~> (Closed(l) /\ layers[l].clients = {})

\* C20: a closed layer's clients set drains through the close observers and
\* stays empty.
C20_ClientsDrain == C20_Eventually /\ [][C20_Step]_vars

\* close() has just run on a layer that holds sockets: they are closing and
\* still in clients
C20_Witness ==
  /\ op.name = "layerClose"
  /\ layers[op.arg].clients # {}
  /\ closeInvoked = layers[op.arg].clients
  /\ \A s \in closeInvoked : sockState[s] = "closing"

\* the close event of the last socket of a closed layer has emptied its clients
C20_WitnessDrained ==
  /\ op.name = "socketClosed"
  /\ \E l \in listeners[op.arg] : Closed(l) /\ layers[l].clients = {}

====
